---------------------------- MODULE Spec2Model ----------------------------
(***************************************************************************)
(* Model of carbot/carbot.py: DiscordCarbot, a relay from a Discord        *)
(* channel to a LINE group.                                                *)
(*                                                                         *)
(*   on_message                      the inbound filter and dispatch       *)
(*   broadcast_from_private_channel  the relay of a private message into   *)
(*                                   the 'line' channel of the sender's    *)
(*                                   guilds                                *)
(*   forward_message                 text_message + attachments, batching  *)
(*                                   by 5 and one push call per batch      *)
(*                                                                         *)
(* A message content is a sequence of whitespace-separated tokens (a word, *)
(* a URL, an emoji code <:name:id>); the three regular expressions of the  *)
(* class are modelled by what they match on such a sequence.               *)
(***************************************************************************)
EXTENDS Integers, Sequences, FiniteSets, TLC

VARIABLES
    guilds,     \* self.guilds: the guilds the bot is in, in order
    pc,         \* position of the handler: idle, relay, upload, push, done, raised
    cur,        \* the message the running handler was called with
    messages,   \* forward_message: the flattened list of LINE messages
    batches,    \* forward_message: group(messages, 5)
    bi,         \* forward_message: index of the batch the loop is at
    pushes,     \* the push_message calls made by the running handler
    gi,         \* broadcast_from_private_channel: index of the guild the loop is at
    ai,         \* broadcast_from_private_channel: index of the attachment the loop is at
    sends,      \* the channel sends made by the running handler
    echoes      \* the bot's own channel messages not yet delivered back as events

vars == <<guilds, pc, cur, messages, batches, bi, pushes, gi, ai, sends, echoes>>

-----------------------------------------------------------------------------
(* Bounds of the model. *)

\* longest content, in tokens, among the freely composed contents
MaxTokens == 2
\* longest content made of emoji codes only
MaxEmoji == 24
\* longest freely composed attachment list
MaxAtt == 2
\* longest attachment list made of image, audio and video files only
MaxRun == 12
\* number of guilds the bot is in
NumGuilds == 3

-----------------------------------------------------------------------------
(* Configuration. *)

\* DiscordCarbot.friend_bot_id
friend_bot_id == 3

\* DiscordCarbot.target_channel
target_channel == "line"

\* Line only allows up to 5 messages per push_message API call
push_limit == 5

-----------------------------------------------------------------------------
(* Helpers. *)

Min(a, b) == IF a < b THEN a ELSE b

\* the sequences over S of length at most n
SeqUpTo(S, n) == UNION { [1..k -> S] : k \in 0..n }

RECURSIVE Flatten(_)
\* operator.add reduced over a list of lists
Flatten(ss) == IF ss = <<>> THEN <<>> ELSE Head(ss) \o Flatten(Tail(ss))

\* list[a:b] of Python, on a 0-based half-open range, clamped to the list
Slice(list, a, b) == SubSeq(list, a + 1, Min(b, Len(list)))

\* range(0, n, step) of Python
Range0(n, step) == [k \in 1..((n + step - 1) \div step) |-> (k - 1) * step]

-----------------------------------------------------------------------------
(* group: the slices list[start_idx:start_idx + group_size] *)

\* variant: each slice runs one item too far
group_off_by_one(list, group_size) ==
    [k \in 1..Len(Range0(Len(list), group_size)) |->
        Slice(list, Range0(Len(list), group_size)[k],
                    Range0(Len(list), group_size)[k] + group_size + 1)]

group(list, group_size) ==
    [k \in 1..Len(Range0(Len(list), group_size)) |->
        Slice(list, Range0(Len(list), group_size)[k],
                    Range0(Len(list), group_size)[k] + group_size)]

-----------------------------------------------------------------------------
(* Users, contents and attachments. *)

Users == {"alice", "bob", "friend", "self"}

\* discord user: id, bot flag, avatar hash ("" when none), display name, colour
User(u) ==
    CASE u = "alice"  -> [id |-> 1, bot |-> FALSE, avatar |-> "a1b2", display_name |-> "Alice", color |-> "#3498db"]
      [] u = "bob"    -> [id |-> 2, bot |-> FALSE, avatar |-> "",     display_name |-> "Bob",   color |-> "#000000"]
      [] u = "friend" -> [id |-> friend_bot_id, bot |-> TRUE, avatar |-> "f00d", display_name |-> "LineBot", color |-> "#000000"]
      [] u = "self"   -> [id |-> 4, bot |-> TRUE, avatar |-> "",     display_name |-> "Carbot", color |-> "#000000"]

Word == [k |-> "word", v |-> 0]
Url(n) == [k |-> "url", v |-> n]
Emoji(n) == [k |-> "emoji", v |-> n]

Alphabet == {Word, Url(1), Url(2), Emoji(1)}

EmojiRun(n) == [i \in 1..n |-> Emoji(i)]

Contents == SeqUpTo(Alphabet, MaxTokens) \cup { EmojiRun(n) : n \in 1..MaxEmoji }

Filenames == {"a.png", "a.mp3", "a.mp4", "a.pdf", "a.qqq", "README"}

MediaRun(n) == [i \in 1..n |-> <<"a.png", "a.mp3", "a.mp4">>[(i % 3) + 1]]

FilenameLists == SeqUpTo(Filenames, MaxAtt) \cup { MediaRun(n) : n \in 1..MaxRun }

\* discord.Attachment: filename, url, proxy_url; the i-th upload of a message
Attachment(fn, i) == [filename |-> fn, url |-> <<"cdn", i>>, proxy_url |-> <<"media", i>>]

Attachments(fns) == [i \in 1..Len(fns) |-> Attachment(fns[i], i)]


-----------------------------------------------------------------------------
(* The regular expressions of DiscordCarbot, on a sequence of tokens. *)

RECURSIVE FindAll(_, _)
\* the tokens of kind k, in order of appearance
FindAll(content, k) ==
    IF content = <<>> THEN <<>>
    ELSE (IF Head(content).k = k THEN <<Head(content)>> ELSE <<>>)
         \o FindAll(Tail(content), k)

\* emoji_regex.findall(content): the emoji hash captured in each emoji code
emoji_regex_findall(content) ==
    [i \in 1..Len(FindAll(content, "emoji")) |-> FindAll(content, "emoji")[i].v]

\* plain_emoji_msg_regex.match(content): one or more emoji codes and nothing
\* else but whitespace
plain_emoji_msg_regex_match(content) ==
    /\ Len(content) >= 1
    /\ \A i \in 1..Len(content) : content[i].k = "emoji"

\* url_regex.findall(content): each matched link, as the text it is
url_regex_findall(content) ==
    [i \in 1..Len(FindAll(content, "url")) |-> <<FindAll(content, "url")[i]>>]

-----------------------------------------------------------------------------
(* LINE message objects. *)

TextSendMessage(text) == [type |-> "text", text |-> text]
ImageSendMessage(url, preview) ==
    [type |-> "image", original_content_url |-> url, preview_image_url |-> preview]
AudioSendMessage(url) == [type |-> "audio", original_content_url |-> url]
VideoSendMessage(url) == [type |-> "video", original_content_url |-> url]
FlexSendMessage(alt, bubble) == [type |-> "flex", alt_text |-> alt, contents |-> bubble]

BubbleContainer(footer) == [node |-> "bubble", footer |-> footer]
BoxComponent(layout, spacing, contents) ==
    [node |-> "box", layout |-> layout, spacing |-> spacing, contents |-> contents]
FillerComponent == [node |-> "filler"]
TextComponent(text, weight, color, size, wrap) ==
    [node |-> "text", text |-> text, weight |-> weight, color |-> color,
     size |-> size, wrap |-> wrap]
ImageComponent(url, size) == [node |-> "image", url |-> url, size |-> size]
IconComponent(url, size) == [node |-> "icon", url |-> url, size |-> size]

-----------------------------------------------------------------------------
(* text_message *)

\* variant: the tiers compared with < instead of <=
emoji_layout_strict(n) ==
    IF n < 10 THEN [group_size |-> 6, icon_size |-> "3xl"]
    ELSE IF n < 15 THEN [group_size |-> 8, icon_size |-> "xxl"]
    ELSE [group_size |-> 10, icon_size |-> "xl"]

\* the row capacity and icon size of the emoji grid, by the number of emojis
emoji_layout(n) ==
    IF n <= 10 THEN [group_size |-> 6, icon_size |-> "3xl"]
    ELSE IF n <= 15 THEN [group_size |-> 8, icon_size |-> "xxl"]
    ELSE [group_size |-> 10, icon_size |-> "xl"]

\* one BoxComponent of icons per group of emojis
emoji_rows(emojis) ==
    LET lay  == emoji_layout(Len(emojis))
        rows == group(emojis, lay.group_size)
    IN  [r \in 1..Len(rows) |->
            BoxComponent("baseline", "",
                [c \in 1..Len(rows[r]) |->
                    IconComponent(<<"https://cdn.discordapp.com/emojis/", rows[r][c], ".png">>,
                                  lay.icon_size)])]

\* the name line and the avatar of the card; both empty for a bot
message_author(author) ==
    IF author.bot THEN <<>>
    ELSE <<TextComponent(author.display_name, "bold", author.color, "sm", FALSE)>>

avatar(author) ==
    IF author.bot THEN <<>>
    ELSE <<ImageComponent(IF author.avatar = ""
                          THEN <<"default_avatar_url", author.id>>
                          ELSE <<"https://cdn.discordapp.com/avatars/", author.id,
                                 author.avatar, ".png?size=256">>,
                          "xxs")>>

\* the FlexSendMessage built around the given body boxes
message_card(author, content, message_body_boxes) ==
    FlexSendMessage(<<author.display_name, ":", content>>,
        BubbleContainer(
            BoxComponent("horizontal", "md",
                avatar(author)
                \o <<BoxComponent("vertical", "",
                        message_author(author) \o message_body_boxes)>>)))

follow_ups(content) ==
    [i \in 1..Len(url_regex_findall(content)) |->
        TextSendMessage(url_regex_findall(content)[i])]

\* variant: the link follow-ups put before the card
text_message_links_first(message) ==
    LET author  == User(message.author)
        content == message.content
    IN  IF author.bot /\ content = <<>> THEN <<>>
        ELSE IF content = <<>>
            THEN follow_ups(content) \o <<message_card(author, content, <<FillerComponent>>)>>
        ELSE IF plain_emoji_msg_regex_match(content)
            THEN follow_ups(content)
                 \o <<message_card(author, content, emoji_rows(emoji_regex_findall(content)))>>
        ELSE IF author.bot
            THEN <<TextSendMessage(content)>>
        ELSE follow_ups(content)
             \o <<message_card(author, content,
                    <<TextComponent(content, "", "", "", TRUE)>>)>>

\* variant: without the early return for a bot with no content
text_message_always_card(message) ==
    LET author  == User(message.author)
        content == message.content
    IN  IF content = <<>>
            THEN <<message_card(author, content, <<FillerComponent>>)>> \o follow_ups(content)
        ELSE IF plain_emoji_msg_regex_match(content)
            THEN <<message_card(author, content, emoji_rows(emoji_regex_findall(content)))>>
                 \o follow_ups(content)
        ELSE IF author.bot
            THEN <<TextSendMessage(content)>>
        ELSE <<message_card(author, content,
                    <<TextComponent(content, "", "", "", TRUE)>>)>>
             \o follow_ups(content)

\* text_message(message): the card or the text, then one text per link
text_message(message) ==
    LET author  == User(message.author)
        content == message.content
    IN  IF author.bot /\ content = <<>> THEN <<>>
        ELSE IF content = <<>>
            THEN <<message_card(author, content, <<FillerComponent>>)>> \o follow_ups(content)
        ELSE IF plain_emoji_msg_regex_match(content)
            THEN <<message_card(author, content, emoji_rows(emoji_regex_findall(content)))>>
                 \o follow_ups(content)
        ELSE IF author.bot
            THEN <<TextSendMessage(content)>>
        ELSE <<message_card(author, content,
                    <<TextComponent(content, "", "", "", TRUE)>>)>>
             \o follow_ups(content)

-----------------------------------------------------------------------------
(* attachments *)

\* mimetypes.guess_type(filename)[0]: the type guessed from the extension,
\* None when the name has no extension or one that is not known
guess_type(filename) ==
    CASE filename = "a.png" -> [none |-> FALSE, main |-> "image", sub |-> "png"]
      [] filename = "a.mp3" -> [none |-> FALSE, main |-> "audio", sub |-> "mpeg"]
      [] filename = "a.mp4" -> [none |-> FALSE, main |-> "video", sub |-> "mp4"]
      [] filename = "a.pdf" -> [none |-> FALSE, main |-> "application", sub |-> "pdf"]
      [] OTHER              -> [none |-> TRUE,  main |-> "", sub |-> ""]

\* the body of the loop for one attachment: what it appends, or that
\* guessed_type.startswith raised because guessed_type is None
transform_attachment(attachment) ==
    LET guessed_type == guess_type(attachment.filename)
    IN  IF guessed_type.none
            THEN [raised |-> TRUE, value |-> <<>>]
        ELSE IF guessed_type.main = "image"
            THEN [raised |-> FALSE,
                  value |-> <<ImageSendMessage(attachment.url, attachment.proxy_url)>>]
        ELSE IF guessed_type.main = "audio"
            THEN [raised |-> FALSE, value |-> <<AudioSendMessage(attachment.url)>>]
        ELSE IF guessed_type.main = "video"
            THEN [raised |-> FALSE, value |-> <<VideoSendMessage(attachment.url)>>]
        ELSE [raised |-> FALSE, value |-> <<>>]

RECURSIVE attachments_loop(_, _)
\* the for loop of attachments(): transformed_attachments so far, then the rest
attachments_loop(rest, transformed_attachments) ==
    IF rest = <<>> THEN [raised |-> FALSE, value |-> transformed_attachments]
    ELSE LET r == transform_attachment(Head(rest))
         IN  IF r.raised THEN [raised |-> TRUE, value |-> <<>>]
             ELSE attachments_loop(Tail(rest), transformed_attachments \o r.value)

attachments(message) == attachments_loop(message.attachments, <<>>)

-----------------------------------------------------------------------------
(* forward_message: the list of messages built before the push loop *)

forward_transforms(message) ==
    LET a == attachments(message)
    IN  IF a.raised THEN [raised |-> TRUE, value |-> <<>>]
        ELSE [raised |-> FALSE, value |-> Flatten(<<text_message(message), a.value>>)]

-----------------------------------------------------------------------------
(* Inbound messages and guilds. *)

DMChannel == [kind |-> "dm", name |-> ""]
TextChannel(name) == [kind |-> "text", name |-> name]

\* str(channel): the name of a guild channel; never the target name for a DM
str_channel(channel) ==
    IF channel.kind = "dm" THEN "Direct Message" ELSE channel.name

Message(author, channel, type, content, filenames) ==
    [author |-> author, channel |-> channel, type |-> type, content |-> content,
     attachments |-> Attachments(filenames)]

NoMessage == [author |-> "", channel |-> [kind |-> "", name |-> ""], type |-> "",
              content |-> <<>>, attachments |-> <<>>]

\* the messages the gateway delivers, from any user, on any channel
InboundMessages ==
    { Message(a, c, t, x, f) :
        a \in {"alice", "bob", "friend"},
        c \in {DMChannel, TextChannel(target_channel), TextChannel("general")},
        t \in {"default", "pins_add"},
        x \in SeqUpTo({Word}, 1),
        f \in SeqUpTo({"a.png", "README"}, MaxAtt) }

\* messages of the default type on the target channel, of every shape
TargetChannelMessages ==
    { Message(a, TextChannel(target_channel), "default", x, f) :
        a \in Users, x \in Contents, f \in FilenameLists }

\* a guild: its members and the names of its channels, in order
GuildKinds ==
    { [members |-> m, channels |-> c] :
        m \in {{"self"}, {"self", "alice"}},
        c \in {<<"general">>, <<"general", target_channel>>} }

GuildLayouts == [1..NumGuilds -> GuildKinds]

\* discord.utils.find(lambda channel: str(channel) == target_channel, guild.channels):
\* the index of the first such channel, 0 for None
find_channel(guild) ==
    IF \E i \in 1..Len(guild.channels) : guild.channels[i] = target_channel
    THEN CHOOSE i \in 1..Len(guild.channels) :
            /\ guild.channels[i] = target_channel
            /\ \A j \in 1..(i - 1) : guild.channels[j] # target_channel
    ELSE 0

\* variant: the send comes back as a message of the friend bot
echo_from_friend(guild, channel, content, filenames) ==
    Message("friend", TextChannel(guild.channels[channel]), "default", content, filenames)

\* the message event the gateway delivers for a send of the bot into a channel:
\* authored by self.user, on that channel
echo(guild, channel, content, filenames) ==
    Message("self", TextChannel(guild.channels[channel]), "default", content, filenames)

-----------------------------------------------------------------------------
(* on_message *)

is_private(message) == message.channel.kind = "dm"

\* variant: without the test on the author
should_forward_any_author(message) ==
    /\ str_channel(message.channel) = target_channel
    /\ message.type = "default"

\* the condition of the elif of on_message
should_forward(message) ==
    /\ str_channel(message.channel) = target_channel
    /\ message.type = "default"
    /\ User(message.author).id # friend_bot_id

\* on_message(message), up to the first await or push call; pending are the
\* events still to be delivered
on_message(message, pending) ==
    /\ cur' = message
    /\ echoes' = pending
    /\ pushes' = <<>>
    /\ sends' = <<>>
    /\ ai' = 0
    /\ UNCHANGED guilds
    /\ IF is_private(message)
       THEN /\ pc' = "relay"
            /\ gi' = 1
            /\ messages' = <<>> /\ batches' = <<>> /\ bi' = 0
       ELSE IF should_forward(message)
       THEN LET r == forward_transforms(message)
            IN  /\ gi' = 0
                /\ IF r.raised
                   THEN /\ pc' = "raised"
                        /\ messages' = <<>> /\ batches' = <<>> /\ bi' = 0
                   ELSE /\ messages' = r.value
                        /\ batches' = group(r.value, push_limit)
                        /\ bi' = 1
                        /\ pc' = IF group(r.value, push_limit) = <<>> THEN "done" ELSE "push"
       ELSE /\ pc' = "done"
            /\ gi' = 0
            /\ messages' = <<>> /\ batches' = <<>> /\ bi' = 0

\* A message from a user arrives. Handlers share no state (the class keeps
\* read-only configuration only), so they are run one at a time, and the
\* events of the bot's own sends are delivered before the next message.
ReceiveMessage ==
    /\ pc = "idle"
    /\ echoes = <<>>
    /\ \E m \in InboundMessages : on_message(m, <<>>)

\* a message on the target channel arrives
ReceiveTargetChannelMessage ==
    /\ pc = "idle"
    /\ echoes = <<>>
    /\ \E m \in TargetChannelMessages : on_message(m, <<>>)

\* a message the bot sent itself comes back as an event
ReceiveEcho ==
    /\ pc = "idle"
    /\ echoes # <<>>
    /\ on_message(Head(echoes), Tail(echoes))

\* the handler has returned, or raised: its locals are gone
Return ==
    /\ pc \in {"done", "raised"}
    /\ pc' = "idle"
    /\ cur' = NoMessage
    /\ messages' = <<>> /\ batches' = <<>> /\ bi' = 0
    /\ pushes' = <<>> /\ sends' = <<>>
    /\ gi' = 0 /\ ai' = 0
    /\ UNCHANGED <<guilds, echoes>>

-----------------------------------------------------------------------------
(* forward_message: the push loop *)

\* one turn of the loop: push_message is called with the batch and returns
PushOk ==
    /\ pc = "push"
    /\ pushes' = Append(pushes, [to |-> "LINE_TARGET_GROUP_ID", messages |-> batches[bi], ok |-> TRUE])
    /\ bi' = bi + 1
    /\ pc' = IF bi = Len(batches) THEN "done" ELSE "push"
    /\ UNCHANGED <<guilds, cur, messages, batches, gi, ai, sends, echoes>>

\* variant: the error of push_message leaves the loop
PushFail_propagates ==
    /\ pc = "push"
    /\ pushes' = Append(pushes, [to |-> "LINE_TARGET_GROUP_ID", messages |-> batches[bi], ok |-> FALSE])
    /\ pc' = "raised"
    /\ UNCHANGED <<guilds, cur, messages, batches, bi, gi, ai, sends, echoes>>

\* one turn of the loop: push_message raises LineBotApiError, which the except
\* clause logs; the loop goes on
PushFail ==
    /\ pc = "push"
    /\ pushes' = Append(pushes, [to |-> "LINE_TARGET_GROUP_ID", messages |-> batches[bi], ok |-> FALSE])
    /\ bi' = bi + 1
    /\ pc' = IF bi = Len(batches) THEN "done" ELSE "push"
    /\ UNCHANGED <<guilds, cur, messages, batches, gi, ai, sends, echoes>>

-----------------------------------------------------------------------------
(* broadcast_from_private_channel *)

\* one turn of the loop over self.guilds: the filter on membership, the lookup
\* of the channel, the send of the content
RelayGuild ==
    /\ pc = "relay"
    /\ UNCHANGED <<guilds, cur, messages, batches, bi, pushes>>
    /\ IF gi > Len(guilds)
       THEN /\ pc' = "done"
            /\ UNCHANGED <<gi, ai, sends, echoes>>
       ELSE LET guild        == guilds[gi]
                dest_channel == find_channel(guild)
            IN  IF cur.author \notin guild.members \/ dest_channel = 0
                THEN /\ gi' = gi + 1
                     /\ UNCHANGED <<pc, ai, sends, echoes>>
                ELSE /\ IF cur.content # <<>>
                        THEN /\ sends' = Append(sends, [guild |-> gi, channel |-> dest_channel,
                                                        content |-> cur.content, file |-> ""])
                             /\ echoes' = Append(echoes, echo(guild, dest_channel, cur.content, <<>>))
                        ELSE UNCHANGED <<sends, echoes>>
                     /\ IF cur.attachments # <<>>
                        THEN /\ pc' = "upload"
                             /\ ai' = 1
                             /\ UNCHANGED gi
                        ELSE /\ gi' = gi + 1
                             /\ UNCHANGED <<pc, ai>>

\* variant: the first upload carries the content of the message
UploadSend_with_content ==
    /\ pc = "upload"
    /\ LET guild        == guilds[gi]
           dest_channel == find_channel(guild)
           filename     == cur.attachments[ai].filename
           content      == IF ai = 1 THEN cur.content ELSE <<>>
       IN  /\ sends' = Append(sends, [guild |-> gi, channel |-> dest_channel,
                                      content |-> content, file |-> filename])
           /\ echoes' = Append(echoes, echo(guild, dest_channel, content, <<filename>>))
    /\ IF ai < Len(cur.attachments)
       THEN /\ ai' = ai + 1
            /\ UNCHANGED <<pc, gi>>
       ELSE /\ pc' = "relay"
            /\ gi' = gi + 1
            /\ ai' = 0
    /\ UNCHANGED <<guilds, cur, messages, batches, bi, pushes>>

\* one turn of the loop over message.attachments: the file is fetched and sent,
\* without content, into the channel
UploadSend ==
    /\ pc = "upload"
    /\ LET guild        == guilds[gi]
           dest_channel == find_channel(guild)
           filename     == cur.attachments[ai].filename
       IN  /\ sends' = Append(sends, [guild |-> gi, channel |-> dest_channel,
                                      content |-> <<>>, file |-> filename])
           /\ echoes' = Append(echoes, echo(guild, dest_channel, <<>>, <<filename>>))
    /\ IF ai < Len(cur.attachments)
       THEN /\ ai' = ai + 1
            /\ UNCHANGED <<pc, gi>>
       ELSE /\ pc' = "relay"
            /\ gi' = gi + 1
            /\ ai' = 0
    /\ UNCHANGED <<guilds, cur, messages, batches, bi, pushes>>

\* the same turn raises: attachment['url'] subscripts the attachment that
\* attachments() reads by attribute, client.get is a network fetch, and nothing
\* in the handler catches either
UploadRaise ==
    /\ pc = "upload"
    /\ pc' = "raised"
    /\ UNCHANGED <<guilds, cur, messages, batches, bi, pushes, gi, ai, sends, echoes>>

-----------------------------------------------------------------------------
(* Specifications. *)

Idle ==
    /\ pc = "idle"
    /\ cur = NoMessage
    /\ messages = <<>> /\ batches = <<>> /\ bi = 0
    /\ pushes = <<>> /\ sends = <<>> /\ echoes = <<>>
    /\ gi = 0 /\ ai = 0

\* the bot in any layout of guilds, receiving messages from users
Init == Idle /\ guilds \in GuildLayouts

Next ==
    \/ ReceiveMessage
    \/ ReceiveEcho
    \/ RelayGuild
    \/ UploadSend
    \/ UploadRaise
    \/ PushOk
    \/ PushFail
    \/ Return

Spec == Init /\ [][Next]_vars

\* forward_message on every shape of message of the target channel
InitForward ==
    /\ Idle
    /\ guilds = [g \in 1..NumGuilds |-> [members |-> {"self"}, channels |-> <<target_channel>>]]

NextForward ==
    \/ ReceiveTargetChannelMessage
    \/ PushOk
    \/ PushFail
    \/ Return

SpecForward == InitForward /\ [][NextForward]_vars

-----------------------------------------------------------------------------
(* Properties. *)

\* the items handed to push_message so far, over all calls, in call order
Pushed == Flatten([i \in 1..Len(pushes) |-> pushes[i].messages])

\* the running handler is forward_message
Forwarding == pc # "idle" /\ ~is_private(cur) /\ should_forward(cur)

\* C1: a push call that raises LineBotApiError never aborts the loop of
\* forward_message: the batches are attempted once each, in order, whatever
\* calls fail, and no error leaves forward_message once a push was made.
C1_BestEffortPerBatch ==
    /\ pushes # <<>> => pc \in {"push", "done"}
    /\ Len(pushes) <= Len(batches)
    /\ \A i \in 1..Len(pushes) : pushes[i].messages = batches[i]
    /\ pc = "push" => Len(pushes) = bi - 1 /\ bi <= Len(batches)
    /\ (pc = "done" /\ Forwarding) => Len(pushes) = Len(batches)

C1_Witness ==
    /\ pc = "done"
    /\ Len(pushes) = 3
    /\ ~pushes[1].ok /\ pushes[2].ok /\ ~pushes[3].ok

\* C2: group(messages, 5) partitions the list: the batches concatenated are the
\* list, each batch has 1 to 5 items, each but the last has 5, and 13 messages
\* give batches of 5, 5 and 3.
C2_GroupPartitions ==
    /\ Flatten(batches) = messages
    /\ \A k \in 1..Len(batches) :
        /\ Len(batches[k]) >= 1
        /\ Len(batches[k]) <= 5
        /\ k < Len(batches) => Len(batches[k]) = 5
    /\ Len(messages) = 13 =>
        [k \in 1..Len(batches) |-> Len(batches[k])] = <<5, 5, 3>>

C2_Witness ==
    /\ pc = "done"
    /\ Len(messages) = 13
    /\ Len(pushes) = 3

\* the attachments of the message whose guessed type is image, audio or video
RECURSIVE MediaCount(_)
MediaCount(atts) ==
    IF atts = <<>> THEN 0
    ELSE (IF guess_type(Head(atts).filename).main \in {"image", "audio", "video"}
          THEN 1 ELSE 0) + MediaCount(Tail(atts))

\* C3: attachments() is total: an attachment whose filename has no extension,
\* or an unknown one, raises nothing and yields no message, and the other
\* attachments of the message are still transformed.
C3_AttachmentsTotal ==
    Forwarding =>
        /\ pc # "raised"
        /\ Len(SelectSeq(messages, LAMBDA x : x.type \in {"image", "audio", "video"}))
            = MediaCount(cur.attachments)

\* the attachment messages of the list, in order, as (type, url)
MediaOf(list) ==
    LET media == SelectSeq(list, LAMBDA x : x.type \in {"image", "audio", "video"})
    IN  [i \in 1..Len(media) |-> <<media[i].type, media[i].original_content_url>>]

\* the attachments of the message with a media type, in order, as (type, url)
MediaAttachments(atts) ==
    LET media == SelectSeq(atts, LAMBDA a :
                    guess_type(a.filename).main \in {"image", "audio", "video"})
    IN  [i \in 1..Len(media) |-> <<guess_type(media[i].filename).main, media[i].url>>]

\* the links of the content, in order of appearance
Links(content) == SelectSeq(content, LAMBDA t : t.k = "url")

\* C4 as claimed: the list pushed for a forwarded message is the card or text
\* message, then one text per link of the content, then the attachment messages.
C4_CardLinksAttachments ==
    (pc = "done" /\ Forwarding) =>
        LET n == Len(Links(cur.content))
        IN  /\ Len(Pushed) >= 1 + n
            /\ Pushed[1].type \in {"flex", "text"}
            /\ \A j \in 1..n :
                Pushed[1 + j] = [type |-> "text", text |-> <<Links(cur.content)[j]>>]
            /\ MediaOf(SubSeq(Pushed, 2 + n, Len(Pushed))) = MediaAttachments(cur.attachments)
            /\ Len(Pushed) = 1 + n + Len(MediaAttachments(cur.attachments))

\* C4, amended: the list is what text_message gives (nothing for a bot with no
\* content, one text and no link follow-up for a bot with plain text, else the
\* card followed by one text per link in order of appearance), then the
\* attachment messages in attachment order; the push calls carry it in list
\* order, and when attachments() raises nothing is pushed.
C4_ForwardOrder ==
    LET author == User(cur.author)
        plain  == author.bot /\ cur.content # <<>>
                  /\ \E i \in 1..Len(cur.content) : cur.content[i].k # "emoji"
        n      == IF author.bot /\ (cur.content = <<>> \/ plain)
                  THEN 0 ELSE Len(Links(cur.content))
        h      == IF author.bot /\ cur.content = <<>> THEN 0 ELSE 1
    IN  /\ Forwarding =>
            /\ \A i \in 1..Len(Pushed) : Pushed[i] = messages[i]
            /\ Len(Pushed) <= Len(messages)
            /\ pc = "raised" => pushes = <<>>
        /\ (pc = "done" /\ Forwarding) =>
            /\ Len(Pushed) = h + n + Len(MediaAttachments(cur.attachments))
            /\ h = 1 => Pushed[1].type = (IF plain THEN "text" ELSE "flex")
            /\ plain => Pushed[1].text = cur.content
            /\ \A j \in 1..n :
                Pushed[h + j] = [type |-> "text", text |-> <<Links(cur.content)[j]>>]
            /\ MediaOf(SubSeq(Pushed, h + n + 1, Len(Pushed)))
                = MediaAttachments(cur.attachments)

C4_Witness ==
    /\ pc = "done"
    /\ cur.author = "alice"
    /\ cur.content = <<Url(2), Url(1)>>
    /\ Len(cur.attachments) = 2
    /\ Len(Pushed) = 5
    /\ Pushed[2].type = "text" /\ Pushed[5].type = "audio"

\* C5: only a message that is not private, on the channel named 'line', of the
\* default type and not authored by friend_bot_id is ever pushed; any other
\* message that is not private causes no push call and no channel send.
C5_FilterGuardsForward ==
    LET passes == /\ cur.channel.kind = "text"
                  /\ cur.channel.name = "line"
                  /\ cur.type = "default"
                  /\ User(cur.author).id # friend_bot_id
    IN  /\ pushes # <<>> => passes
        /\ (pc # "idle" /\ cur.channel.kind # "dm" /\ ~passes) =>
            /\ pc = "done"
            /\ pushes = <<>> /\ messages = <<>>
            /\ sends = <<>> /\ echoes = <<>>

C5_Witness ==
    /\ pc = "done"
    /\ cur.author = "friend"
    /\ cur.channel = TextChannel("line")
    /\ cur.type = "default"
    /\ cur.content = <<Word>>
    /\ pushes = <<>>

\* the sends of the running handler that carry the text of the message into guild g
TextSends(g) ==
    SelectSeq(sends, LAMBDA x : x.guild = g /\ x.content = cur.content)

\* C6: once the relay of a private message with text is over, the text was sent
\* exactly once into the 'line' channel of every guild that has one and that the
\* sender is a member of, and into no other guild.
C6_TextToEveryGroup ==
    (pc \in {"done", "raised"} /\ is_private(cur) /\ cur.content # <<>>) =>
        \A g \in 1..Len(guilds) :
            Len(TextSends(g)) =
                IF cur.author \in guilds[g].members
                   /\ \E c \in 1..Len(guilds[g].channels) : guilds[g].channels[c] = "line"
                THEN 1 ELSE 0

\* C7: for a bot author and an empty content the list holds the attachment
\* messages only, and with one image attachment it is the one image message
\* with the url and the proxy url of the attachment.
C7_BotEmptyContent ==
    (Forwarding /\ pc \in {"push", "done"} /\ User(cur.author).bot /\ cur.content = <<>>) =>
        /\ \A i \in 1..Len(messages) : messages[i].type \in {"image", "audio", "video"}
        /\ Len(messages) = Len(cur.attachments)
            - Len(SelectSeq(cur.attachments, LAMBDA a : a.filename = "a.pdf"))
        /\ pc = "done" => Pushed = messages
        /\ (Len(cur.attachments) = 1 /\ cur.attachments[1].filename = "a.png") =>
            /\ Len(messages) = 1
            /\ messages[1].type = "image"
            /\ messages[1].original_content_url = cur.attachments[1].url
            /\ messages[1].preview_image_url = cur.attachments[1].proxy_url

C7_Witness ==
    /\ pc = "done"
    /\ cur.author = "self"
    /\ cur.content = <<>>
    /\ Len(cur.attachments) = 1 /\ cur.attachments[1].filename = "a.png"
    /\ Len(pushes) = 1 /\ pushes[1].ok
    /\ Len(Pushed) = 1

\* the rows of icons of the card: the boxes of the vertical box of its footer
IconRows(card) ==
    LET footer == card.contents.footer
        column == footer.contents[Len(footer.contents)]
    IN  SelectSeq(column.contents, LAMBDA x : x.node = "box")

\* C8: for a content of n emoji codes the card has rows of at most 6 icons of
\* size 3xl (n <= 10), 8 of size xxl (10 < n <= 15) or 10 of size xl (n > 15);
\* the rows keep the order of the codes, all rows but the last are full and
\* none is empty: 7 codes give 6+1, 12 give 8+4 and 23 give 10+10+3.
C8_EmojiGrid ==
    (Forwarding /\ pc \in {"push", "done"} /\ cur.content # <<>>
     /\ \A i \in 1..Len(cur.content) : cur.content[i].k = "emoji") =>
        LET n    == Len(cur.content)
            rows == IconRows(messages[1])
            cap  == IF n <= 10 THEN 6 ELSE IF n <= 15 THEN 8 ELSE 10
            size == IF n <= 10 THEN "3xl" ELSE IF n <= 15 THEN "xxl" ELSE "xl"
            lens == [r \in 1..Len(rows) |-> Len(rows[r].contents)]
        IN  /\ messages[1].type = "flex"
            /\ \A r \in 1..Len(rows) :
                /\ lens[r] >= 1 /\ lens[r] <= cap
                /\ r < Len(rows) => lens[r] = cap
                /\ \A c \in 1..lens[r] :
                    /\ rows[r].contents[c].size = size
                    /\ rows[r].contents[c].url[2] = cur.content[(r - 1) * cap + c].v
            /\ Len(Flatten([r \in 1..Len(rows) |-> rows[r].contents])) = n
            /\ n = 7 => lens = <<6, 1>>
            /\ n = 12 => lens = <<8, 4>>
            /\ n = 23 => lens = <<10, 10, 3>>

C8_Witness ==
    /\ pc = "done"
    /\ Forwarding
    /\ cur.content = EmojiRun(23)
    /\ Len(IconRows(messages[1])) = 3
    /\ Pushed # <<>>

\* C9: the handler of a private message makes no push call; each of its sends
\* comes back as an event authored by the bot itself on a guild channel named
\* 'line', which on_message forwards and never relays again.
C9_RelayNeverPushes ==
    /\ (pc # "idle" /\ is_private(cur)) =>
        /\ pushes = <<>> /\ messages = <<>> /\ batches = <<>>
        /\ Len(echoes) = Len(sends)
        /\ \A i \in 1..Len(sends) :
            /\ echoes[i].content = sends[i].content
            /\ echoes[i].channel.name = guilds[sends[i].guild].channels[sends[i].channel]
    /\ \A i \in 1..Len(echoes) :
        /\ echoes[i].channel.kind = "text"
        /\ echoes[i].channel.name = "line"
        /\ echoes[i].type = "default"
        /\ echoes[i].author = "self"
        /\ User(echoes[i].author).id # friend_bot_id
    /\ (pc # "idle" /\ cur.author = "self") =>
        /\ pc \in {"push", "done", "raised"}
        /\ sends = <<>>

C9_Witness ==
    /\ pc = "done"
    /\ cur.author = "self"
    /\ cur.content = <<Word>>
    /\ Len(pushes) = 1
    /\ pushes[1].messages = <<[type |-> "text", text |-> <<Word>>]>>

=============================================================================
